---- MODULE Spec2Model ----
(***************************************************************************)
(* The Maxwell DMA copy engine (src/video_core/engines/maxwell_dma.cpp).   *)
(*                                                                         *)
(* The engine is one register file written through CallMethod; a write to  *)
(* the exec register runs HandleCopy synchronously.  The collaborators     *)
(* (memory manager, rasterizer, Maxwell3D dirty flags, texture decoders)   *)
(* are observed through the calls the engine makes to them: `calls` is the *)
(* sequence of collaborator calls of the last CallMethod, `log` the lines  *)
(* logged so far.                                                          *)
(***************************************************************************)
EXTENDS Integers, Sequences, FiniteSets, TLC

VARIABLES
    regs,       \* regs.reg_array, restricted to the words HandleCopy reads and one padding word
    outside,    \* the word of the MaxwellDMA object that follows reg_array
    mapped,     \* the GPU virtual addresses the memory manager resolves
    calls,      \* collaborator calls made by the last CallMethod, in order
    log,        \* the log lines written so far, in order
    last,       \* the last method call handed to CallMethod
    halted,     \* the process was terminated (failed assertion, trap)
    nwrites     \* number of CallMethod calls so far

vars == <<regs, outside, mapped, calls, log, last, halted, nwrites>>

(***************************************************************************)
(* Bounds of the model.                                                    *)
(***************************************************************************)
MaxWrites == 3      \* method calls per behaviour
MaxLines == 4       \* largest y_count written

(***************************************************************************)
(* Machine integers.  A register word written by the command stream is an  *)
(* integer below 2^31.  A computed u32 or u64 is kept at its width as a     *)
(* little-endian sequence of 16-bit digits (2 digits for u32, 4 for u64),   *)
(* so that sums and products wrap exactly where the C++ ones do.            *)
(***************************************************************************)
Digit == 65536

\* a register word as a u32
Wide32(n) == <<n % Digit, n \div Digit>>

\* the integral conversion u32 -> u64 (GPUVAddr, std::size_t)
Extend(w) == w \o <<0, 0>>

RECURSIVE AddCarry(_, _, _)
AddCarry(a, b, carry) ==
    IF a = <<>> THEN <<>>
    ELSE LET s == Head(a) + Head(b) + carry
         IN  <<s % Digit>> \o AddCarry(Tail(a), Tail(b), s \div Digit)

\* a + b at the width of a and b (equal), wrapping
AddWide(a, b) == AddCarry(a, b, 0)

\* the product of two digits, as two digits
MulDigit(x, y) ==
    LET p1 == x * (y % 256)
        p2 == x * (y \div 256)
        low == p1 + (p2 % 256) * 256
    IN  <<low % Digit, (low \div Digit) + (p2 \div 256)>>

\* w shifted left by n digits, at a width of k digits
ShiftDigits(w, n, k) ==
    [i \in 1 .. k |-> IF i > n /\ i - n <= Len(w) THEN w[i - n] ELSE 0]

RECURSIVE SumPartial(_, _, _, _)
SumPartial(a, b, n, k) ==
    IF n = 0 THEN [i \in 1 .. k |-> 0]
    ELSE LET i == ((n - 1) \div Len(b)) + 1
             j == ((n - 1) % Len(b)) + 1
         IN  AddWide(ShiftDigits(MulDigit(a[i], b[j]), i + j - 2, k),
                     SumPartial(a, b, n - 1, k))

\* a * b at a width of k digits, wrapping
MulWide(a, b, k) == SumPartial(a, b, Len(a) * Len(b), k)

\* u32 * u32 -> u32
Mul32(x, y) == MulWide(Wide32(x), Wide32(y), 2)

\* BitField<position, bits, T>: the field of `word` at bit `position`, `bits` wide
BitField(position, bits, word) == (word \div (2 ^ position)) % (2 ^ bits)

(***************************************************************************)
(* The register file layout (MaxwellDMA::Regs).                            *)
(***************************************************************************)
NUM_REGS == 470

\* offsetof(MaxwellDMA::Regs, field_name), in bytes
RegsOffset(field_name) ==
    CASE field_name = "exec"                    -> 768
      [] field_name = "src_address.address_high" -> 1024
      [] field_name = "src_address.address_low"  -> 1028
      [] field_name = "dst_address.address_high" -> 1032
      [] field_name = "dst_address.address_low"  -> 1036
      [] field_name = "src_pitch"                -> 1040
      [] field_name = "dst_pitch"                -> 1044
      [] field_name = "x_count"                  -> 1048
      [] field_name = "y_count"                  -> 1052
      [] field_name = "dst_params.block"         -> 1804
      [] field_name = "dst_params.size_x"        -> 1808
      [] field_name = "dst_params.size_y"        -> 1812
      [] field_name = "dst_params.size_z"        -> 1816
      [] field_name = "dst_params.pos"           -> 1824
      [] field_name = "src_params.block"         -> 1832
      [] field_name = "src_params.size_x"        -> 1836
      [] field_name = "src_params.size_y"        -> 1840
      [] field_name = "src_params.size_z"        -> 1844
      [] field_name = "src_params.pos"           -> 1852
      [] field_name = "padding"                  -> 0

MAXWELLDMA_REG_INDEX(field_name) == RegsOffset(field_name) \div 4

FieldNames ==
    {"exec", "src_address.address_high", "src_address.address_low",
     "dst_address.address_high", "dst_address.address_low",
     "src_pitch", "dst_pitch", "x_count", "y_count",
     "dst_params.block", "dst_params.size_x", "dst_params.size_y",
     "dst_params.size_z", "dst_params.pos",
     "src_params.block", "src_params.size_x", "src_params.size_y",
     "src_params.size_z", "src_params.pos", "padding"}

\* the indices of reg_array the model keeps
RegIndices == {MAXWELLDMA_REG_INDEX(f) : f \in FieldNames}

\* regs.<field_name>, read from register file r
Field(r, field_name) == r[MAXWELLDMA_REG_INDEX(field_name)]

\* the exec bitfield
CopyMode_Unk2 == 2
QueryMode_None == 0
QueryIntr_None == 0
copy_mode(r) == BitField(0, 2, Field(r, "exec"))
query_mode(r) == BitField(3, 2, Field(r, "exec"))
query_intr(r) == BitField(5, 2, Field(r, "exec"))
is_src_linear(r) == BitField(7, 1, Field(r, "exec"))
is_dst_linear(r) == BitField(8, 1, Field(r, "exec"))
enable_2d(r) == BitField(9, 1, Field(r, "exec"))
enable_swizzle(r) == BitField(10, 1, Field(r, "exec"))

\* Parameters::pos_x, pos_y and BlockHeight()
pos_x(r, params) == BitField(0, 16, Field(r, params \o ".pos"))
pos_y(r, params) == BitField(16, 16, Field(r, params \o ".pos"))
BlockHeight(r, params) == 2 ^ BitField(4, 4, Field(r, params \o ".block"))

\* regs.src_address.Address(), regs.dst_address.Address()
Address(r, which) ==
    Wide32(Field(r, which \o ".address_low")) \o Wide32(Field(r, which \o ".address_high"))

(***************************************************************************)
(* Collaborators, as the calls made to them.                               *)
(***************************************************************************)
Call(op, args) == [op |-> op, args |-> args]

\* memory_manager.GetPointer(addr): the host pointer, or nullptr when not mapped
NullPtr == <<>>
GetPointer(mp, addr) == IF addr \in mp THEN <<addr>> ELSE NullPtr

\* ToCacheAddr(host_ptr): the pointer, reinterpreted
ToCacheAddr(host_ptr) == host_ptr

(***************************************************************************)
(* Outcomes of a handler: the calls made, the lines logged, and whether    *)
(* the process was terminated.                                             *)
(***************************************************************************)
\* ASSERT / ASSERT_MSG / UNREACHABLE_MSG failing: log the message, terminate
Crash(c, l, msg) == [calls |-> c, log |-> Append(l, msg), halted |-> TRUE]

\* a hardware trap (integer division by zero): terminate, nothing logged
Trap(c, l) == [calls |-> c, log |-> l, halted |-> TRUE]

\* the handler returns
Return(c, l) == [calls |-> c, log |-> l, halted |-> FALSE]

AssertionFailed == "Assertion Failed!"

\* what a u32 division by zero can do: trap, or yield a quotient of 0
DivByZeroOutcomes == {"trap", "zero"}
Quotient(a, b) == IF b = 0 THEN 0 ELSE a \div b

(***************************************************************************)
(* HandleCopy                                                              *)
(***************************************************************************)
\* ExecChecks without the assertion on pos_y
ExecChecks_NoPosY(r) ==
    /\ enable_swizzle(r) = 0
    /\ query_mode(r) = QueryMode_None
    /\ query_intr(r) = QueryIntr_None
    /\ copy_mode(r) = CopyMode_Unk2
    /\ pos_x(r, "dst_params") = 0

\* the assertions on the exec flags and the destination offset
ExecChecks(r) ==
    /\ enable_swizzle(r) = 0
    /\ query_mode(r) = QueryMode_None
    /\ query_intr(r) = QueryIntr_None
    /\ copy_mode(r) = CopyMode_Unk2
    /\ pos_x(r, "dst_params") = 0
    /\ pos_y(r, "dst_params") = 0

\* TiledToTiled with the test of is_src_linear inverted
TiledToTiled_WrongFlag(r) == is_dst_linear(r) = 0 /\ is_src_linear(r) = 1

\* both the source and the destination are in block layout
TiledToTiled(r) == is_dst_linear(r) = 0 /\ is_src_linear(r) = 0

\* OnMemoryWrite left out
OnMemoryWrite_Skipped(c) == c

\* system.GPU().Maxwell3D().dirty_flags.OnMemoryWrite()
OnMemoryWrite(c) == Append(c, Call("OnMemoryWrite", <<>>))

\* the line-by-line copy of a 2D image
CopyLines(r, source, dest) ==
    [n \in 1 .. Field(r, "y_count") |->
        LET line == n - 1
            source_line == AddWide(source, Extend(Mul32(line, Field(r, "src_pitch"))))
            dest_line == AddWide(dest, Extend(Mul32(line, Field(r, "dst_pitch"))))
        IN  Call("CopyBlock", <<dest_line, source_line, Field(r, "x_count")>>)]

\* LinearCopy that copies line by line whatever enable_2d is
LinearCopy_AlwaysLines(r, source, dest, c, l) == Return(c \o CopyLines(r, source, dest), l)

\* source and destination both linear
LinearCopy(r, source, dest, c, l) ==
    IF enable_2d(r) = 0
    THEN Return(Append(c, Call("CopyBlock", <<dest, source, Field(r, "x_count")>>)), l)
    ELSE Return(c \o CopyLines(r, source, dest), l)

\* FlushAndInvalidate with the two rasterizer calls exchanged
FlushAndInvalidate_InvalidateFirst(c, source_ptr, dst_ptr, src_size, dst_size) ==
    c \o << Call("InvalidateRegion", <<ToCacheAddr(dst_ptr), dst_size>>),
            Call("FlushRegion", <<ToCacheAddr(source_ptr), src_size>>) >>

\* the FlushAndInvalidate lambda
FlushAndInvalidate(c, source_ptr, dst_ptr, src_size, dst_size) ==
    c \o << Call("FlushRegion", <<ToCacheAddr(source_ptr), src_size>>),
            Call("InvalidateRegion", <<ToCacheAddr(dst_ptr), dst_size>>) >>

\* the input is tiled and the output is linear
UnswizzleCopy(r, ub, source_ptr, dst_ptr, copy_size, c, l) ==
    IF Field(r, "src_params.size_z") # 1 THEN Crash(c, l, AssertionFailed)
    ELSE IF Field(r, "src_params.size_x") = 0 /\ ub = "trap" THEN Trap(c, l)
    ELSE
        LET src_bytes_per_pixel ==
                Quotient(Field(r, "src_pitch"), Field(r, "src_params.size_x"))
            c1 == FlushAndInvalidate(c, source_ptr, dst_ptr,
                      Mul32(Field(r, "src_pitch"), Field(r, "src_params.size_y")),
                      MulWide(copy_size, Extend(Wide32(src_bytes_per_pixel)), 4))
        IN  Return(Append(c1, Call("UnswizzleSubrect",
                       << Field(r, "x_count"), Field(r, "y_count"), Field(r, "dst_pitch"),
                          Field(r, "src_params.size_x"), src_bytes_per_pixel,
                          source_ptr, dst_ptr, BlockHeight(r, "src_params"),
                          pos_x(r, "src_params"), pos_y(r, "src_params") >>)), l)

\* SwizzleCopy without the assertion that src_pitch equals x_count
SwizzleCopy_NoPitchAssert(r, ub, source_ptr, dst_ptr, c, l) ==
    IF Field(r, "dst_params.size_z") # 1 THEN Crash(c, l, AssertionFailed)
    ELSE IF Field(r, "x_count") = 0 /\ ub = "trap" THEN Trap(c, l)
    ELSE
        LET src_bpp == Quotient(Field(r, "src_pitch"), Field(r, "x_count"))
            c1 == FlushAndInvalidate(c, source_ptr, dst_ptr,
                      Mul32(Field(r, "src_pitch"), Field(r, "y_count")),
                      Extend(MulWide(Mul32(Field(r, "dst_params.size_x"),
                                           Field(r, "dst_params.size_y")),
                                     Wide32(src_bpp), 2)))
        IN  Return(Append(c1, Call("SwizzleSubrect",
                       << Field(r, "x_count"), Field(r, "y_count"), Field(r, "src_pitch"),
                          Field(r, "dst_params.size_x"), src_bpp, dst_ptr, source_ptr,
                          BlockHeight(r, "dst_params") >>)), l)

\* the input is linear and the output is tiled
SwizzleCopy(r, ub, source_ptr, dst_ptr, c, l) ==
    IF Field(r, "dst_params.size_z") # 1 THEN Crash(c, l, AssertionFailed)
    ELSE IF Field(r, "src_pitch") # Field(r, "x_count") THEN Crash(c, l, AssertionFailed)
    ELSE IF Field(r, "x_count") = 0 /\ ub = "trap" THEN Trap(c, l)
    ELSE
        LET src_bpp == Quotient(Field(r, "src_pitch"), Field(r, "x_count"))
            c1 == FlushAndInvalidate(c, source_ptr, dst_ptr,
                      Mul32(Field(r, "src_pitch"), Field(r, "y_count")),
                      Extend(MulWide(Mul32(Field(r, "dst_params.size_x"),
                                           Field(r, "dst_params.size_y")),
                                     Wide32(src_bpp), 2)))
        IN  Return(Append(c1, Call("SwizzleSubrect",
                       << Field(r, "x_count"), Field(r, "y_count"), Field(r, "src_pitch"),
                          Field(r, "dst_params.size_x"), src_bpp, dst_ptr, source_ptr,
                          BlockHeight(r, "dst_params") >>)), l)

\* MixedCopy without the assertion on enable_2d
MixedCopy_No2dAssert(r, mp, ub, source, dest, c, l) ==
    LET copy_size == Extend(Mul32(Field(r, "x_count"), Field(r, "y_count")))
        source_ptr == GetPointer(mp, source)
        dst_ptr == GetPointer(mp, dest)
        c1 == c \o <<Call("GetPointer", <<source>>), Call("GetPointer", <<dest>>)>>
    IN  IF source_ptr = NullPtr THEN Return(c1, Append(l, "source_ptr is invalid"))
        ELSE IF dst_ptr = NullPtr THEN Return(c1, Append(l, "dst_ptr is invalid"))
        ELSE IF is_dst_linear(r) = 1 /\ is_src_linear(r) = 0
             THEN UnswizzleCopy(r, ub, source_ptr, dst_ptr, copy_size, c1, l)
             ELSE SwizzleCopy(r, ub, source_ptr, dst_ptr, c1, l)

\* MixedCopy without the check of dst_ptr
MixedCopy_NoDstCheck(r, mp, ub, source, dest, c, l) ==
    IF enable_2d(r) # 1 THEN Crash(c, l, AssertionFailed)
    ELSE
        LET copy_size == Extend(Mul32(Field(r, "x_count"), Field(r, "y_count")))
            source_ptr == GetPointer(mp, source)
            dst_ptr == GetPointer(mp, dest)
            c1 == c \o <<Call("GetPointer", <<source>>), Call("GetPointer", <<dest>>)>>
        IN  IF source_ptr = NullPtr THEN Return(c1, Append(l, "source_ptr is invalid"))
            ELSE IF is_dst_linear(r) = 1 /\ is_src_linear(r) = 0
                 THEN UnswizzleCopy(r, ub, source_ptr, dst_ptr, copy_size, c1, l)
                 ELSE SwizzleCopy(r, ub, source_ptr, dst_ptr, c1, l)

\* exactly one of the source and the destination is linear
MixedCopy(r, mp, ub, source, dest, c, l) ==
    IF enable_2d(r) # 1 THEN Crash(c, l, AssertionFailed)
    ELSE
        LET copy_size == Extend(Mul32(Field(r, "x_count"), Field(r, "y_count")))
            source_ptr == GetPointer(mp, source)
            dst_ptr == GetPointer(mp, dest)
            c1 == c \o <<Call("GetPointer", <<source>>), Call("GetPointer", <<dest>>)>>
        IN  IF source_ptr = NullPtr THEN Return(c1, Append(l, "source_ptr is invalid"))
            ELSE IF dst_ptr = NullPtr THEN Return(c1, Append(l, "dst_ptr is invalid"))
            ELSE IF is_dst_linear(r) = 1 /\ is_src_linear(r) = 0
                 THEN UnswizzleCopy(r, ub, source_ptr, dst_ptr, copy_size, c1, l)
                 ELSE SwizzleCopy(r, ub, source_ptr, dst_ptr, c1, l)

HandleCopy(r, mp, ub) ==
    LET l == <<"Requested a DMA copy">>
        source == Address(r, "src_address")
        dest == Address(r, "dst_address")
    IN  IF ~ExecChecks(r) THEN Crash(<<>>, l, AssertionFailed)
        ELSE IF TiledToTiled(r)
        THEN Crash(<<>>, l, "Tiled->Tiled DMA transfers are not yet implemented")
        ELSE IF is_dst_linear(r) = 1 /\ is_src_linear(r) = 1
             THEN LinearCopy(r, source, dest, OnMemoryWrite(<<>>), l)
             ELSE MixedCopy(r, mp, ub, source, dest, OnMemoryWrite(<<>>), l)

(***************************************************************************)
(* CallMethod                                                              *)
(***************************************************************************)
\* MethodInRange, off by one
MethodInRange_OffByOne(method) == method <= NUM_REGS

InvalidRegisterMessage ==
    "Invalid MaxwellDMA register, increase the size of the Regs structure"

\* the bound check on method_call.method
MethodInRange(method) == method < NUM_REGS

\* StoreReg that assigns the whole array instead of one element
StoreReg_Reset(obj, method, argument) ==
    [obj EXCEPT !.regs = [i \in DOMAIN obj.regs |-> IF i = method THEN argument ELSE 0]]

\* regs.reg_array[method] = argument, on the engine object obj
StoreReg(obj, method, argument) ==
    IF method \in DOMAIN obj.regs
    THEN [obj EXCEPT !.regs[method] = argument]
    ELSE [obj EXCEPT !.outside = argument]

\* the switch on method_call.method
Dispatch(obj, mp, ub, method) ==
    IF method = MAXWELLDMA_REG_INDEX("exec")
    THEN HandleCopy(obj.regs, mp, ub)
    ELSE Return(<<>>, <<>>)

\* CallMethodResult with the switch run before the store
CallMethodResult_CopyBeforeStore(obj, mp, ub, method, argument) ==
    IF ~MethodInRange(method)
    THEN [obj |-> obj,
          out |-> Crash(<<>>, <<>>, InvalidRegisterMessage)]
    ELSE [obj |-> StoreReg(obj, method, argument), out |-> Dispatch(obj, mp, ub, method)]

\* CallMethodResult with the trigger register cleared once the copy is over
CallMethodResult_ClearsTrigger(obj, mp, ub, method, argument) ==
    IF ~MethodInRange(method)
    THEN [obj |-> obj,
          out |-> Crash(<<>>, <<>>, InvalidRegisterMessage)]
    ELSE LET stored == StoreReg(obj, method, argument)
         IN  [obj |-> IF method = MAXWELLDMA_REG_INDEX("exec")
                      THEN StoreReg(stored, method, 0) ELSE stored,
              out |-> Dispatch(stored, mp, ub, method)]

\* the engine object and the outcome of CallMethod(method_call)
CallMethodResult(obj, mp, ub, method, argument) ==
    IF ~MethodInRange(method)
    THEN [obj |-> obj,
          out |-> Crash(<<>>, <<>>, InvalidRegisterMessage)]
    ELSE LET stored == StoreReg(obj, method, argument)
         IN  [obj |-> stored, out |-> Dispatch(stored, mp, ub, method)]

(***************************************************************************)
(* The values the command stream writes.                                   *)
(***************************************************************************)
\* an exec word from its fields
ExecWord(mode, qmode, qintr, src_linear, dst_linear, e2d, swizzle) ==
    mode + 8 * qmode + 32 * qintr + 128 * src_linear + 256 * dst_linear
         + 512 * e2d + 1024 * swizzle

ExecArgs ==
    {ExecWord(CopyMode_Unk2, 0, 0, s, d, e, 0) : s \in 0 .. 1, d \in 0 .. 1, e \in 0 .. 1}
    \cup {ExecWord(CopyMode_Unk2, 0, 0, 1, 1, 0, 1), ExecWord(CopyMode_Unk2, 0, 0, 0, 1, 1, 1),
          ExecWord(CopyMode_Unk2, 1, 0, 1, 0, 1, 0), ExecWord(CopyMode_Unk2, 0, 2, 1, 1, 1, 0),
          ExecWord(1, 0, 0, 0, 1, 1, 0), ExecWord(3, 0, 0, 1, 1, 0, 0), 0}

\* a pitch whose product with a line number above 2 does not fit 32 bits
BigPitch == 1610612736

ArgsOf(field_name) ==
    CASE field_name = "exec" -> ExecArgs
      [] field_name = "src_address.address_low" -> {0, 4096}
      [] field_name = "dst_address.address_high" -> {0, 1}
      [] field_name = "src_pitch" -> {0, BigPitch}
      [] field_name = "dst_pitch" -> {256}
      [] field_name = "x_count" -> {0, 32}
      [] field_name = "y_count" -> {0, MaxLines}
      [] field_name = "src_params.size_z" -> {2}
      [] field_name = "dst_params.size_z" -> {0}
      [] field_name = "src_params.size_x" -> {0}
      [] field_name = "dst_params.size_x" -> {BigPitch}
      [] field_name = "dst_params.pos" -> {1, 65536}
      [] field_name = "padding" -> {7}
      [] OTHER -> {}

MethodCall(field_name, argument) ==
    [method |-> MAXWELLDMA_REG_INDEX(field_name), argument |-> argument]

\* method calls with a register index inside the register file
MethodCalls == UNION {{MethodCall(f, a) : a \in ArgsOf(f)} : f \in FieldNames}

\* method calls with a register index outside the register file
InvalidMethodCalls == {[method |-> m, argument |-> 7] : m \in {NUM_REGS, NUM_REGS + 1}}

\* the GPU virtual addresses the memory manager has mapped
MappedAddresses == {Wide32(4096) \o Wide32(0), Wide32(8192) \o Wide32(1)}

\* the engine object after construction
FreshObject == [regs |-> [i \in RegIndices |-> 0], outside |-> 0]

\* the engine object after CallMethod on each of the method calls ws, in order
RECURSIVE Configure(_, _)
Configure(obj, ws) ==
    IF ws = <<>> THEN obj
    ELSE Configure(CallMethodResult(obj, MappedAddresses, "trap",
                                    Head(ws).method, Head(ws).argument).obj, Tail(ws))

\* register writes that describe a 64 x 2 source and destination, both mapped
SurfaceSetup ==
    << MethodCall("src_address.address_low", 4096),
       MethodCall("dst_address.address_high", 1),
       MethodCall("dst_address.address_low", 8192),
       MethodCall("src_pitch", 64), MethodCall("dst_pitch", 128),
       MethodCall("x_count", 64), MethodCall("y_count", 2),
       MethodCall("src_params.block", 16), MethodCall("src_params.size_x", 16),
       MethodCall("src_params.size_y", 4), MethodCall("src_params.size_z", 1),
       MethodCall("src_params.pos", 65537),
       MethodCall("dst_params.block", 32), MethodCall("dst_params.size_x", 16),
       MethodCall("dst_params.size_y", 4), MethodCall("dst_params.size_z", 1) >>

\* the register writes, none of them to exec, that precede the behaviours checked
Setups ==
    { <<>>,
      SurfaceSetup,
      SurfaceSetup \o <<MethodCall("src_address.address_low", 0)>> }

NoCall == [method |-> -1, argument |-> 0]

(***************************************************************************)
(* The state machine.                                                      *)
(***************************************************************************)
Init ==
    /\ \E ws \in Setups :
          /\ regs = Configure(FreshObject, ws).regs
          /\ outside = Configure(FreshObject, ws).outside
    /\ mapped = MappedAddresses
    /\ calls = <<>>
    /\ log = <<>>
    /\ last = NoCall
    /\ halted = FALSE
    /\ nwrites = 0

CallMethod(method_call, ub) ==
    /\ ~halted
    /\ nwrites < MaxWrites
    /\ LET res == CallMethodResult([regs |-> regs, outside |-> outside], mapped, ub,
                                   method_call.method, method_call.argument)
       IN  /\ regs' = res.obj.regs
           /\ outside' = res.obj.outside
           /\ calls' = res.out.calls
           /\ log' = log \o res.out.log
           /\ halted' = res.out.halted
    /\ last' = method_call
    /\ nwrites' = nwrites + 1
    /\ UNCHANGED mapped

\* the outcomes of undefined behaviour a method call can meet
UndefinedOutcomes(method_call) ==
    IF method_call.method = MAXWELLDMA_REG_INDEX("exec") THEN DivByZeroOutcomes ELSE {"trap"}

Next ==
    \E method_call \in MethodCalls \cup InvalidMethodCalls :
        \E ub \in UndefinedOutcomes(method_call) : CallMethod(method_call, ub)

Spec == Init /\ [][Next]_vars

(***************************************************************************)
(* Vocabulary of the properties.                                           *)
(***************************************************************************)
ExecIndex == MAXWELLDMA_REG_INDEX("exec")

\* the number of calls to collaborator operation op in c
CountOp(c, op) == Cardinality({i \in 1 .. Len(c) : c[i].op = op})

\* the number of copies the log l records as started
CopiesStarted(l) == Cardinality({i \in 1 .. Len(l) : l[i] = "Requested a DMA copy"})

\* the last line logged
LastLine == IF log = <<>> THEN "" ELSE log[Len(log)]

\* the render cache and the layout transform
CacheOrTransformOps == {"FlushRegion", "InvalidateRegion", "SwizzleSubrect", "UnswizzleSubrect"}
NoCacheOrTransform(c) == \A i \in 1 .. Len(c) : c[i].op \notin CacheOrTransformOps

\* the last method call was a write of the execute trigger
Triggered == last.method = ExecIndex

\* the request described by register file r passes the unsupported-configuration checks
Supported(r) ==
    /\ enable_swizzle(r) = 0
    /\ query_mode(r) = 0
    /\ query_intr(r) = 0
    /\ copy_mode(r) = 2
    /\ Field(r, "dst_params.pos") = 0

BothTiled(r) == is_src_linear(r) = 0 /\ is_dst_linear(r) = 0
BothLinear(r) == is_src_linear(r) = 1 /\ is_dst_linear(r) = 1
MixedLayout(r) == is_src_linear(r) # is_dst_linear(r)

(***************************************************************************)
(* C1: a write of the execute trigger runs the copy exactly once, on the   *)
(* register file that already holds the written value (the copy proceeds   *)
(* past validation exactly when the flags of the written value allow it);  *)
(* a write of any other register in range starts no copy, logs nothing and *)
(* calls no collaborator.                                                  *)
(***************************************************************************)
C1_Step ==
    LET w == [regs EXCEPT ![ExecIndex] = last'.argument]
    IN  /\ last'.method = ExecIndex =>
              /\ CopiesStarted(log') = CopiesStarted(log) + 1
              /\ regs'[ExecIndex] = last'.argument
              /\ (calls' # <<>>) <=> (Supported(w) /\ ~BothTiled(w))
        /\ (last'.method # ExecIndex /\ last'.method < NUM_REGS) =>
              /\ calls' = <<>>
              /\ log' = log
              /\ ~halted'

C1_TriggerRunsOneCopy == [][C1_Step]_vars

\* a trigger write, after an earlier write, whose copy called a collaborator
C1_Witness == Triggered /\ nwrites >= 2 /\ calls # <<>> /\ CopiesStarted(log) = 1

(***************************************************************************)
(* C2: register fields are sticky: a write in range stores its value at    *)
(* its index and changes no other register, and the copy a trigger write   *)
(* runs is given the values the registers hold at that moment.             *)
(***************************************************************************)
C2_Step ==
    last'.method < NUM_REGS =>
        /\ regs'[last'.method] = last'.argument
        /\ \A i \in RegIndices \ {last'.method} : regs'[i] = regs[i]
        /\ outside' = outside
        /\ \A i \in 1 .. Len(calls') :
              /\ calls'[i].op = "CopyBlock" => calls'[i].args[3] = Field(regs', "x_count")
              /\ calls'[i].op \in {"SwizzleSubrect", "UnswizzleSubrect"} =>
                    /\ calls'[i].args[1] = Field(regs', "x_count")
                    /\ calls'[i].args[2] = Field(regs', "y_count")
        /\ CountOp(calls', "GetPointer") > 0 =>
              /\ calls'[2].args = <<Address(regs', "src_address")>>
              /\ calls'[3].args = <<Address(regs', "dst_address")>>

C2_RegistersSticky == [][C2_Step]_vars

\* a copy ran with an x_count and a padding word written by earlier method calls
C2_Witness ==
    /\ Triggered /\ nwrites = 3
    /\ Field(regs, "padding") = 7 /\ Field(regs, "x_count") = 32
    /\ CountOp(calls, "CopyBlock") > 0

(***************************************************************************)
(* C3: a trigger write with enable_swizzle set, a query mode or query      *)
(* interrupt other than None, a copy mode other than the supported one or  *)
(* a non-zero destination offset reports a failed assertion and calls no   *)
(* collaborator, whatever the linear flags are.                            *)
(***************************************************************************)
C3_UnsupportedHasNoEffect ==
    (Triggered /\ ~Supported(regs)) =>
        /\ calls = <<>>
        /\ LastLine = AssertionFailed

\* an unsupported request with both layouts linear and one with a destination offset
C3_Witness ==
    /\ Triggered /\ calls = <<>>
    /\ BothLinear(regs) /\ copy_mode(regs) = 2 /\ enable_swizzle(regs) = 0
    /\ query_mode(regs) = 0 /\ query_intr(regs) = 0
    /\ pos_y(regs, "dst_params") = 1

(***************************************************************************)
(* C4 as stated: a trigger write with neither layout linear reports the    *)
(* unimplemented-configuration failure and calls no collaborator.          *)
(***************************************************************************)
TiledToTiledMessage == "Tiled->Tiled DMA transfers are not yet implemented"

C4_AsStated ==
    (Triggered /\ BothTiled(regs)) =>
        /\ calls = <<>>
        /\ LastLine = TiledToTiledMessage

(***************************************************************************)
(* C4, amended: a trigger write with neither layout linear calls no        *)
(* collaborator; it reports the unimplemented-configuration failure when   *)
(* the request passes the unsupported-configuration checks, and the failed *)
(* assertion of those checks when it does not.                             *)
(***************************************************************************)
C4_TiledToTiledHasNoEffect ==
    (Triggered /\ BothTiled(regs)) =>
        /\ calls = <<>>
        /\ LastLine = IF Supported(regs) THEN TiledToTiledMessage ELSE AssertionFailed

\* a supported tiled-to-tiled request was rejected
C4_Witness ==
    Triggered /\ BothTiled(regs) /\ Supported(regs) /\ LastLine = TiledToTiledMessage

(***************************************************************************)
(* C5: a request that passes the unsupported-configuration checks and is   *)
(* not tiled to tiled notifies the render-state tracker exactly once, as   *)
(* the first collaborator call of the request, also when the transfer      *)
(* fails afterwards.                                                       *)
(***************************************************************************)
C5_NotifiedOnceFirst ==
    (Triggered /\ Supported(regs) /\ ~BothTiled(regs)) =>
        /\ CountOp(calls, "OnMemoryWrite") = 1
        /\ calls[1].op = "OnMemoryWrite"

\* the tracker was notified by a request whose destination pointer did not resolve
C5_Witness ==
    /\ Triggered /\ LastLine = "dst_ptr is invalid"
    /\ CountOp(calls, "OnMemoryWrite") = 1 /\ CountOp(calls, "GetPointer") = 2

(***************************************************************************)
(* C6: a supported linear-to-linear request with enable_2d clear issues,   *)
(* after the notification, exactly one CopyBlock(destination address,      *)
(* source address, x_count) and nothing else, whatever y_count and the     *)
(* pitches are.                                                            *)
(***************************************************************************)
C6_OneBlockCopy ==
    (Triggered /\ Supported(regs) /\ BothLinear(regs) /\ enable_2d(regs) = 0) =>
        calls = << Call("OnMemoryWrite", <<>>),
                   Call("CopyBlock", << Address(regs, "dst_address"),
                                        Address(regs, "src_address"),
                                        Field(regs, "x_count") >>) >>

\* a one-dimensional copy issued with several lines and non-zero pitches configured
C6_Witness ==
    /\ Triggered /\ Supported(regs) /\ BothLinear(regs) /\ enable_2d(regs) = 0
    /\ Field(regs, "y_count") = MaxLines /\ Field(regs, "src_pitch") = 64
    /\ Field(regs, "dst_pitch") = 128 /\ Field(regs, "x_count") = 64
    /\ CountOp(calls, "CopyBlock") = 1

(***************************************************************************)
(* C7 as stated: a supported linear-to-linear request with enable_2d set   *)
(* issues, after the notification, exactly y_count CopyBlock calls of      *)
(* x_count elements in increasing line order, line i from                  *)
(* source address + i * source pitch to                                    *)
(* destination address + i * destination pitch, and nothing else.          *)
(***************************************************************************)
\* address + line * pitch, the product taken at 64 bits
RowAddress(address, line, pitch) ==
    AddWide(address, MulWide(Extend(Wide32(line)), Extend(Wide32(pitch)), 4))

C7_AsStated ==
    (Triggered /\ Supported(regs) /\ BothLinear(regs) /\ enable_2d(regs) = 1) =>
        calls = << Call("OnMemoryWrite", <<>>) >> \o
                [n \in 1 .. Field(regs, "y_count") |->
                    Call("CopyBlock",
                         << RowAddress(Address(regs, "dst_address"), n - 1,
                                       Field(regs, "dst_pitch")),
                            RowAddress(Address(regs, "src_address"), n - 1,
                                       Field(regs, "src_pitch")),
                            Field(regs, "x_count") >>)]

(***************************************************************************)
(* C8 as stated: a supported mixed-layout request whose two pointers       *)
(* resolve issues one FlushRegion on the source pointer, then one          *)
(* InvalidateRegion on the destination pointer, then one transform         *)
(* (UnswizzleSubrect when the destination is linear, SwizzleSubrect when   *)
(* the source is), and no CopyBlock.                                       *)
(***************************************************************************)
Resolves(r) == Address(r, "src_address") \in mapped /\ Address(r, "dst_address") \in mapped

\* c is the notification, the two resolutions, then flush, invalidate, transform
MixedTransfer(r, c) ==
    /\ Len(c) = 6
    /\ [i \in 1 .. 6 |-> c[i].op] =
          << "OnMemoryWrite", "GetPointer", "GetPointer", "FlushRegion", "InvalidateRegion",
             IF is_dst_linear(r) = 1 THEN "UnswizzleSubrect" ELSE "SwizzleSubrect" >>
    /\ c[4].args[1] = <<Address(r, "src_address")>>
    /\ c[5].args[1] = <<Address(r, "dst_address")>>

C8_AsStated ==
    (Triggered /\ Supported(regs) /\ MixedLayout(regs) /\ Resolves(regs)) =>
        MixedTransfer(regs, calls)

(***************************************************************************)
(* C8, amended: a supported mixed-layout request issues either no flush,   *)
(* invalidate, transform or CopyBlock at all, or exactly one FlushRegion   *)
(* on the source pointer, then one InvalidateRegion on the destination     *)
(* pointer, then the one transform of its direction; it issues them        *)
(* whenever its two pointers resolve, enable_2d is set, the depth of the   *)
(* tiled side is 1, for a linear source source_pitch equals x_count, and   *)
(* the divisor of the bytes-per-pixel quotient (source size_x, or x_count  *)
(* for a linear source) is not zero.                                       *)
(***************************************************************************)
TransferPreconditions(r) ==
    /\ enable_2d(r) = 1
    /\ IF is_dst_linear(r) = 1
       THEN Field(r, "src_params.size_z") = 1 /\ Field(r, "src_params.size_x") # 0
       ELSE /\ Field(r, "dst_params.size_z") = 1
            /\ Field(r, "src_pitch") = Field(r, "x_count")
            /\ Field(r, "x_count") # 0

C8_MixedTransferOrdered ==
    (Triggered /\ Supported(regs) /\ MixedLayout(regs)) =>
        /\ \/ NoCacheOrTransform(calls) /\ CountOp(calls, "CopyBlock") = 0
           \/ MixedTransfer(regs, calls)
        /\ (Resolves(regs) /\ TransferPreconditions(regs)) => MixedTransfer(regs, calls)

\* a tiled source was deswizzled into a linear destination
C8_Witness ==
    /\ Triggered /\ Resolves(regs) /\ TransferPreconditions(regs)
    /\ Len(calls) = 6 /\ calls[6].op = "UnswizzleSubrect"

(***************************************************************************)
(* C9: a mixed-layout request one of whose pointers does not resolve       *)
(* issues no flush, invalidate or transform, logs the invalid pointer and  *)
(* leaves the process running; a later trigger write with a supported      *)
(* configuration that meets the preconditions of its path, with both       *)
(* addresses mapped, performs its copy.                                    *)
(***************************************************************************)
PointerMessages == {"source_ptr is invalid", "dst_ptr is invalid"}

C9_FailedResolution ==
    (Triggered /\ Supported(regs) /\ MixedLayout(regs) /\ enable_2d(regs) = 1
       /\ ~Resolves(regs)) =>
        /\ NoCacheOrTransform(calls)
        /\ ~halted
        /\ LastLine = IF Address(regs, "src_address") \notin mapped
                      THEN "source_ptr is invalid" ELSE "dst_ptr is invalid"

C9_NextCopy ==
    (/\ LastLine \in PointerMessages
     /\ last'.method = ExecIndex
     /\ Supported(regs') /\ ~BothTiled(regs') /\ Resolves(regs')
     /\ MixedLayout(regs') => TransferPreconditions(regs')) =>
        /\ ~halted'
        /\ IF MixedLayout(regs') THEN MixedTransfer(regs', calls')
           ELSE CountOp(calls', "CopyBlock") =
                   IF enable_2d(regs') = 0 THEN 1 ELSE Field(regs', "y_count")

C9_ResolutionFailureRecoverable == [](C9_FailedResolution) /\ [][C9_NextCopy]_vars

\* a transfer performed after an earlier request failed to resolve its source
C9_Witness ==
    /\ Triggered /\ ~halted
    /\ \E i \in 1 .. Len(log) : log[i] = "source_ptr is invalid"
    /\ MixedTransfer(regs, calls)

(***************************************************************************)
(* C10: a method call whose register index is not below NUM_REGS stores    *)
(* nothing, inside or outside the register file, starts no copy, reports   *)
(* the invalid register and terminates the process: no method call is      *)
(* handled after it.                                                       *)
(***************************************************************************)
C10_Step ==
    /\ ~halted
    /\ last'.method >= NUM_REGS =>
          /\ regs' = regs
          /\ outside' = outside
          /\ calls' = <<>>
          /\ log' = Append(log, InvalidRegisterMessage)
          /\ halted'

C10_OutOfRangeIsFatal == [][C10_Step]_vars

\* the process was terminated by an out-of-range index after two accepted writes
C10_Witness == last.method >= NUM_REGS /\ halted /\ nwrites = 3 /\ LastLine = InvalidRegisterMessage

(***************************************************************************)
(* C11: a mixed-layout request with enable_2d clear fails an assertion     *)
(* and the copy is abandoned: no pointer is resolved, and no flush,        *)
(* invalidate, transform or CopyBlock is issued.                           *)
(***************************************************************************)
C11_Mixed1DAborted ==
    (Triggered /\ MixedLayout(regs) /\ enable_2d(regs) = 0) =>
        /\ NoCacheOrTransform(calls)
        /\ CountOp(calls, "GetPointer") = 0
        /\ CountOp(calls, "CopyBlock") = 0
        /\ LastLine = AssertionFailed
        /\ halted

\* a supported mixed-layout request with mapped addresses stopped at enable_2d
C11_Witness ==
    /\ Triggered /\ Supported(regs) /\ MixedLayout(regs) /\ enable_2d(regs) = 0
    /\ Resolves(regs) /\ Field(regs, "src_params.size_z") = 1
    /\ calls = <<Call("OnMemoryWrite", <<>>)>>

(***************************************************************************)
(* C12: in a mixed-layout request the depth and pitch preconditions gate   *)
(* the transfer: with a tiled source whose size_z is not 1, or a tiled     *)
(* destination whose size_z is not 1 or a source_pitch other than          *)
(* x_count, no flush, invalidate or transform is issued; a request that    *)
(* reaches these assertions fails there.                                   *)
(***************************************************************************)
DirectionPreconditions(r) ==
    IF is_dst_linear(r) = 1
    THEN Field(r, "src_params.size_z") = 1
    ELSE Field(r, "dst_params.size_z") = 1 /\ Field(r, "src_pitch") = Field(r, "x_count")

C12_PreconditionsGateTransfer ==
    (Triggered /\ MixedLayout(regs) /\ ~DirectionPreconditions(regs)) =>
        /\ NoCacheOrTransform(calls)
        /\ (Supported(regs) /\ enable_2d(regs) = 1 /\ Resolves(regs)) =>
              (LastLine = AssertionFailed /\ halted /\ Len(calls) = 3)

\* a linear-to-tiled request stopped because source_pitch differs from x_count
C12_Witness ==
    /\ Triggered /\ Supported(regs) /\ enable_2d(regs) = 1 /\ Resolves(regs)
    /\ is_src_linear(regs) = 1 /\ is_dst_linear(regs) = 0
    /\ Field(regs, "dst_params.size_z") = 1
    /\ Field(regs, "src_pitch") # Field(regs, "x_count")
    /\ LastLine = AssertionFailed /\ NoCacheOrTransform(calls)

(***************************************************************************)
(* C13: a copy is started by a trigger write only and is over when that    *)
(* write returns: every trigger write starts exactly one copy, which ends  *)
(* within the same call either in success or in one of the reported        *)
(* failures (a failed assertion, the tiled-to-tiled message, an invalid    *)
(* pointer message); no other write starts a copy.                         *)
(***************************************************************************)
ReportedFailures == {AssertionFailed, TiledToTiledMessage} \cup PointerMessages

C13_EndedInSuccess ==
    ~halted' /\ log' = Append(log, "Requested a DMA copy")

C13_EndedInReportedFailure ==
    /\ Len(log') = Len(log) + 2
    /\ log'[Len(log')] \in ReportedFailures

C13_Step ==
    /\ ~halted
    /\ IF last'.method = ExecIndex
       THEN /\ CopiesStarted(log') = CopiesStarted(log) + 1
            /\ C13_EndedInSuccess \/ C13_EndedInReportedFailure
       ELSE CopiesStarted(log') = CopiesStarted(log)

C13_AsStated == [][C13_Step]_vars

(***************************************************************************)
(* C14: a valid tiled-to-linear request (supported, enable_2d set, both    *)
(* pointers resolved, source size_z 1, source size_x not zero), with       *)
(* bytes_per_pixel the integer quotient source_pitch / source size_x,      *)
(* flushes source_pitch * source size_y bytes, invalidates                 *)
(* (x_count * y_count) * bytes_per_pixel bytes, and calls UnswizzleSubrect *)
(* with x_count, y_count, destination_pitch, source size_x,                *)
(* bytes_per_pixel, the source block height and the source pos_x, pos_y.   *)
(***************************************************************************)
\* the product of register words x and y, and of x, y and z, not reduced
ExactProduct(x, y) == MulWide(Wide32(x), Wide32(y), 4)
ExactProduct3(x, y, z) == MulWide(ExactProduct(x, y), Wide32(z), 6)

\* the unsigned value w written with k digits
Padded(w, k) == [i \in 1 .. k |-> IF i <= Len(w) THEN w[i] ELSE 0]

ValidUnswizzle(r) ==
    /\ Supported(r) /\ is_dst_linear(r) = 1 /\ is_src_linear(r) = 0
    /\ enable_2d(r) = 1 /\ Resolves(r)
    /\ Field(r, "src_params.size_z") = 1 /\ Field(r, "src_params.size_x") # 0

C14_AsStated ==
    (Triggered /\ ValidUnswizzle(regs)) =>
        LET bytes_per_pixel == Field(regs, "src_pitch") \div Field(regs, "src_params.size_x")
        IN  /\ MixedTransfer(regs, calls)
            /\ Padded(calls[4].args[2], 4) =
                  ExactProduct(Field(regs, "src_pitch"), Field(regs, "src_params.size_y"))
            /\ Padded(calls[5].args[2], 6) =
                  ExactProduct3(Field(regs, "x_count"), Field(regs, "y_count"),
                                bytes_per_pixel)
            /\ Len(calls[6].args) = 10
            /\ [i \in {1, 2, 3, 4, 5, 8, 9, 10} |-> calls[6].args[i]] =
                  ( 1 :> Field(regs, "x_count") @@ 2 :> Field(regs, "y_count") @@
                    3 :> Field(regs, "dst_pitch") @@ 4 :> Field(regs, "src_params.size_x") @@
                    5 :> bytes_per_pixel @@ 8 :> BlockHeight(regs, "src_params") @@
                    9 :> pos_x(regs, "src_params") @@ 10 :> pos_y(regs, "src_params") )

(***************************************************************************)
(* C15: a valid linear-to-tiled request (supported, enable_2d set, both    *)
(* pointers resolved, destination size_z 1, source_pitch equal to x_count, *)
(* x_count not zero), with bytes_per_pixel the integer quotient            *)
(* source_pitch / x_count, flushes source_pitch * y_count bytes,           *)
(* invalidates destination size_x * size_y * bytes_per_pixel bytes, and    *)
(* calls SwizzleSubrect with x_count, y_count, source_pitch, destination   *)
(* size_x, bytes_per_pixel and the destination block height, and with no   *)
(* offset arguments.                                                       *)
(***************************************************************************)
ValidSwizzle(r) ==
    /\ Supported(r) /\ is_src_linear(r) = 1 /\ is_dst_linear(r) = 0
    /\ enable_2d(r) = 1 /\ Resolves(r)
    /\ Field(r, "dst_params.size_z") = 1
    /\ Field(r, "src_pitch") = Field(r, "x_count") /\ Field(r, "x_count") # 0

C15_AsStated ==
    (Triggered /\ ValidSwizzle(regs)) =>
        LET bytes_per_pixel == Field(regs, "src_pitch") \div Field(regs, "x_count")
        IN  /\ MixedTransfer(regs, calls)
            /\ Padded(calls[4].args[2], 4) =
                  ExactProduct(Field(regs, "src_pitch"), Field(regs, "y_count"))
            /\ Padded(calls[5].args[2], 6) =
                  ExactProduct3(Field(regs, "dst_params.size_x"),
                                Field(regs, "dst_params.size_y"), bytes_per_pixel)
            /\ Len(calls[6].args) = 8
            /\ [i \in {1, 2, 3, 4, 5, 8} |-> calls[6].args[i]] =
                  ( 1 :> Field(regs, "x_count") @@ 2 :> Field(regs, "y_count") @@
                    3 :> Field(regs, "src_pitch") @@ 4 :> Field(regs, "dst_params.size_x") @@
                    5 :> bytes_per_pixel @@ 8 :> BlockHeight(regs, "dst_params") )

(***************************************************************************)
(* C16: in the 2D linear-to-linear path every CopyBlock call is given the  *)
(* exact row addresses: the call for row i copies from source_address +    *)
(* i * source_pitch to destination_address + i * destination_pitch, the    *)
(* products not reduced modulo 2^32.                                       *)
(***************************************************************************)
C16_AsStated ==
    (Triggered /\ Supported(regs) /\ BothLinear(regs) /\ enable_2d(regs) = 1) =>
        \A n \in 1 .. Len(calls) :
            calls[n].op = "CopyBlock" =>
                /\ calls[n].args[1] =
                      RowAddress(Address(regs, "dst_address"),
                                 CountOp(SubSeq(calls, 1, n - 1), "CopyBlock"),
                                 Field(regs, "dst_pitch"))
                /\ calls[n].args[2] =
                      RowAddress(Address(regs, "src_address"),
                                 CountOp(SubSeq(calls, 1, n - 1), "CopyBlock"),
                                 Field(regs, "src_pitch"))

(***************************************************************************)
(* C17: in a mixed-layout transfer the byte ranges handed to the cache are *)
(* exact products: the flushed size is source_pitch * source size_y        *)
(* (tiled source) or source_pitch * y_count (linear source), the           *)
(* invalidated size is (x_count * y_count) * bytes_per_pixel (tiled        *)
(* source) or destination size_x * size_y * bytes_per_pixel (linear        *)
(* source), none reduced modulo 2^32; bytes_per_pixel is the value handed  *)
(* to the transform.                                                       *)
(***************************************************************************)
C17_AsStated ==
    (Triggered /\ Supported(regs) /\ MixedLayout(regs) /\ MixedTransfer(regs, calls)) =>
        LET bytes_per_pixel == calls[6].args[5]
        IN  IF is_dst_linear(regs) = 1
            THEN /\ Padded(calls[4].args[2], 4) =
                       ExactProduct(Field(regs, "src_pitch"),
                                    Field(regs, "src_params.size_y"))
                 /\ Padded(calls[5].args[2], 6) =
                       ExactProduct3(Field(regs, "x_count"), Field(regs, "y_count"),
                                     bytes_per_pixel)
            ELSE /\ Padded(calls[4].args[2], 4) =
                       ExactProduct(Field(regs, "src_pitch"), Field(regs, "y_count"))
                 /\ Padded(calls[5].args[2], 6) =
                       ExactProduct3(Field(regs, "dst_params.size_x"),
                                     Field(regs, "dst_params.size_y"), bytes_per_pixel)

(***************************************************************************)
(* C18: in every mixed-layout request that reaches the bytes-per-pixel     *)
(* quotient (supported, enable_2d set, both pointers resolved, the         *)
(* preconditions of its direction hold) the divisor is not zero: source    *)
(* size_x for a tiled source, x_count for a linear source.                 *)
(***************************************************************************)
C18_AsStated ==
    (/\ Triggered /\ Supported(regs) /\ MixedLayout(regs) /\ enable_2d(regs) = 1
     /\ Resolves(regs) /\ DirectionPreconditions(regs)) =>
        IF is_dst_linear(regs) = 1
        THEN Field(regs, "src_params.size_x") # 0
        ELSE Field(regs, "x_count") # 0

(***************************************************************************)
(* C19: a linear-to-tiled request with source_pitch equal to x_count and   *)
(* x_count above zero is transformed with bytes_per_pixel 1, invalidates   *)
(* destination size_x * size_y bytes and flushes x_count * y_count bytes.  *)
(***************************************************************************)
C19_AsStated ==
    (Triggered /\ ValidSwizzle(regs)) =>
        /\ MixedTransfer(regs, calls)
        /\ calls[6].args[5] = 1
        /\ Padded(calls[5].args[2], 4) =
              ExactProduct(Field(regs, "dst_params.size_x"),
                           Field(regs, "dst_params.size_y"))
        /\ Padded(calls[4].args[2], 4) =
              ExactProduct(Field(regs, "x_count"), Field(regs, "y_count"))

(***************************************************************************)
(* C20: executing a copy does not modify the register file: across a       *)
(* trigger write, whatever path the copy takes, the register file after    *)
(* the call is the one before it with the written value in the exec slot,  *)
(* and nothing outside the register file is written.                       *)
(***************************************************************************)
C20_Step ==
    last'.method = ExecIndex =>
        /\ regs' = [regs EXCEPT ![ExecIndex] = last'.argument]
        /\ outside' = outside

C20_CopyLeavesRegisters == [][C20_Step]_vars

\* a swizzle ran on the configured surfaces, whose registers are as configured
C20_Witness ==
    /\ Triggered /\ nwrites = 1
    /\ MixedTransfer(regs, calls) /\ calls[6].op = "SwizzleSubrect"
    /\ regs = [Configure(FreshObject, SurfaceSetup).regs EXCEPT ![ExecIndex] = last.argument]

====
